---- MODULE Spec2Model ----
(***************************************************************************)
(* fast_dom: the element catalog, the four tag shapes and their encodings, *)
(* the recursive ElementBuilder encoder (src/src/element.rs) and the       *)
(* cross-boundary registers shared with the JS interpreter                 *)
(* (src/src/lib.rs).                                                        *)
(*                                                                         *)
(* Strings are sequences of bytes (their UTF-8 bytes), a Batch is the byte  *)
(* sequence v.msg.  Every encoder takes the batch and returns the batch    *)
(* after the call, as the Rust code mutates `v: &mut Batch`.               *)
(***************************************************************************)
EXTENDS Integers, Sequences, FiniteSets, TLC

\* ------------------------------------------------------------------ bounds

\* children per generated inner node
MaxChildren == 2
\* attributes per generated node
MaxAttrs == 2
\* the widest generated node (children or attributes)
MaxWide == 256
\* a further encode call is made on a batch of at most this many bytes
MaxPrefix == 5
\* encode calls made on one batch
MaxOps == 2
\* memory relocations in one behaviour
MaxReloc == 2
\* batch cycles in one behaviour
MaxCycles == 2

\* ------------------------------------------------------- program constants

\* `enum Element`, "All built-in elements", in declaration order
ElementNames ==
    <<"a", "abbr", "acronym", "address", "applet", "area", "article",
      "aside", "audio", "b", "base", "bdi", "bdo", "bgsound", "big", "blink",
      "blockquote", "body", "br", "button", "canvas", "caption", "center",
      "cite", "code", "col", "colgroup", "content", "data", "datalist", "dd",
      "del", "details", "dfn", "dialog", "dir", "div", "dl", "dt", "em",
      "embed", "fieldset", "figcaption", "figure", "font", "footer", "form",
      "frame", "frameset", "h1", "head", "header", "hgroup", "hr", "html",
      "i", "iframe", "image", "img", "input", "ins", "kbd", "keygen",
      "label", "legend", "li", "link", "main", "map", "mark", "marquee",
      "menu", "menuitem", "meta", "meter", "nav", "nobr", "noembed",
      "noframes", "noscript", "object", "ol", "optgroup", "option", "output",
      "p", "param", "picture", "plaintext", "portal", "pre", "progress", "q",
      "rb", "rp", "rt", "rtc", "ruby", "s", "samp", "script", "section",
      "select", "shadow", "slot", "small", "source", "spacer", "span",
      "strike", "strong", "style", "sub", "summary", "sup", "table", "tbody",
      "td", "template", "textarea", "tfoot", "th", "thead", "time", "title",
      "tr", "track", "tt", "u", "ul", "var", "video", "wbr", "xmp">>

\* number of variants of `enum Element`
ElementCountTooBig == 253 + 1
ElementCount == Len(ElementNames)

\* `e as u8` of the variant called name: its position, from 0
HasElement(name) == \E i \in 1..Len(ElementNames) : ElementNames[i] = name
CodeOf(name) == (CHOOSE i \in 1..Len(ElementNames) : ElementNames[i] = name) - 1

\* width in bytes of a NodeId (u32)
NodeIdWidth == 4

\* width in bytes of the length prefix written by encode_str
StrLenWidth == 2

\* initial value of the static MSG_POS_UPDATED
MSG_POS_UPDATED_INIT == 255

\* the value of the flag that marks a batch as ready to be read
ReadySentinel == MSG_POS_UPDATED_INIT

\* ------------------------------------------------------------- primitives

\* `x as u8`
AsU8(n) == n % 256

RECURSIVE Pow256(_)
Pow256(i) == IF i = 0 THEN 1 ELSE 256 * Pow256(i - 1)

\* little-endian bytes of n, w bytes wide
LE(n, w) == [i \in 1..w |-> (n \div Pow256(i - 1)) % 256]

\* v.msg.push(b)
push(v, b) == Append(v, b)

\* Batch::encode_str: a fixed-width length prefix, then the raw bytes
encode_str(v, s) == v \o LE(Len(s), StrLenWidth) \o s

None == [some |-> FALSE, val |-> 0]
Some(n) == [some |-> TRUE, val |-> n]

\* Batch::encode_optional_id_with_byte_bool: a presence byte, then the id
encode_optional_id_with_byte_bool(v, id) ==
    IF id.some THEN push(v, 1) \o LE(id.val, NodeIdWidth) ELSE push(v, 0)

\* AnyAttribute::encode_u8_discriminant: the attribute's discriminant byte
encode_u8_discriminant(attr, v) == push(v, attr.disc)

\* ---------------------------------------------------------------- AnyElement

ElementKind(c) == [variant |-> "Element", code |-> c, ns |-> <<>>, name |-> <<>>]
InNamespaceKind(c, n) == [variant |-> "InNamespace", code |-> c, ns |-> n, name |-> <<>>]
StrKind(s) == [variant |-> "Str", code |-> 0, ns |-> <<>>, name |-> s]
InNamespaceStrKind(n, s) == [variant |-> "InNamespaceStr", code |-> 0, ns |-> n, name |-> s]

\* impl IntoElement for Element
Element_encode(k, v) == push(v, AsU8(k.code))

\* impl IntoElement for InNamespace<Element>
InNamespace_Element_encode_code_first(k, v) ==
    encode_str(push(push(v, AsU8(k.code)), 255), k.ns)
InNamespace_Element_encode(k, v) ==
    encode_str(push(push(v, 255), AsU8(k.code)), k.ns)

\* impl IntoElement for &str
Str_encode_wrong_marker(k, v) == encode_str(push(v, 253), k.name)
Str_encode(k, v) == encode_str(push(v, 254), k.name)

\* impl IntoElement for InNamespace<&str>
InNamespace_Str_encode_swapped(k, v) ==
    encode_str(encode_str(push(v, 253), k.name), k.ns)
InNamespace_Str_encode(k, v) ==
    encode_str(encode_str(push(v, 253), k.ns), k.name)

\* AnyElement::encode
AnyElement_encode(k, v) ==
    CASE k.variant = "Element" -> Element_encode(k, v)
      [] k.variant = "InNamespace" -> InNamespace_Element_encode(k, v)
      [] k.variant = "Str" -> Str_encode(k, v)
      [] k.variant = "InNamespaceStr" -> InNamespace_Str_encode(k, v)

\* ------------------------------------------------------------ ElementBuilder

\* ElementBuilder::new(kind).id(..).attrs(..).children(..)
Builder(i, k, a, c) == [id |-> i, kind |-> k, attrs |-> a, children |-> c]

\* the two count bytes, "packed together so they can be read as a u16"
PushCounts_swapped(b, v) == push(push(v, AsU8(Len(b.children))), AsU8(Len(b.attrs)))
PushCounts(b, v) == push(push(v, AsU8(Len(b.attrs))), AsU8(Len(b.children)))

\* The loops over attrs and children thread the batch through the elements
\* lo..hi in order.  The range is split in halves, and the batch after the
\* first half is computed (Len) before the second half is entered, to keep
\* the evaluation shallow.

\* attr.encode_u8_discriminant(v); v.encode_str(*value)
EncodeAttr(pair, v) == encode_str(encode_u8_discriminant(pair[1], v), pair[2])

\* for (attr, value) in self.attrs { .. }
RECURSIVE EncodeAttrsRange(_, _, _, _)
EncodeAttrsRange(attrs, lo, hi, v) ==
    IF lo > hi THEN v
    ELSE IF lo = hi THEN EncodeAttr(attrs[lo], v)
    ELSE LET mid == (lo + hi) \div 2
             v1 == EncodeAttrsRange(attrs, lo, mid, v)
         IN  IF Len(v1) >= 0 THEN EncodeAttrsRange(attrs, mid + 1, hi, v1) ELSE v1

EncodeAttrs(b, v) == EncodeAttrsRange(b.attrs, 1, Len(b.attrs), v)

RECURSIVE ElementBuilder_encode(_, _)
RECURSIVE ElementBuilder_encode_tag_first(_, _)
RECURSIVE EncodeChildrenRange(_, _, _, _)

\* for child in self.children { child.encode(v) }
EncodeChildrenRange(children, lo, hi, v) ==
    IF lo > hi THEN v
    ELSE IF lo = hi THEN ElementBuilder_encode(children[lo], v)
    ELSE LET mid == (lo + hi) \div 2
             v1 == EncodeChildrenRange(children, lo, mid, v)
         IN  IF Len(v1) >= 0 THEN EncodeChildrenRange(children, mid + 1, hi, v1) ELSE v1

Reverse(s) == [i \in 1..Len(s) |-> s[Len(s) + 1 - i]]

EncodeChildren_last_first(b, v) ==
    EncodeChildrenRange(Reverse(b.children), 1, Len(b.children), v)
EncodeChildren(b, v) == EncodeChildrenRange(b.children, 1, Len(b.children), v)

\* ElementBuilder::encode
ElementBuilder_encode_tag_first(b, v) ==
    LET v1 == AnyElement_encode(b.kind, v)
        v2 == encode_optional_id_with_byte_bool(v1, b.id)
        v3 == PushCounts(b, v2)
        v4 == EncodeAttrs(b, v3)
    IN  EncodeChildren(b, v4)

ElementBuilder_encode(b, v) ==
    LET v1 == encode_optional_id_with_byte_bool(v, b.id)
        v2 == AnyElement_encode(b.kind, v1)
        v3 == PushCounts(b, v2)
        v4 == EncodeAttrs(b, v3)
    IN  EncodeChildren(b, v4)

\* ------------------------------------------------------------------ inputs

\* "http://www.w3.org/2000/svg"
SvgNs == <<104, 116, 116, 112, 58, 47, 47, 119, 119, 119, 46, 119, 51, 46,
           111, 114, 103, 47, 50, 48, 48, 48, 47, 115, 118, 103>>
\* "custom-element"
CustomElement == <<99, 117, 115, 116, 111, 109, 45, 101, 108, 101, 109, 101, 110, 116>>
\* "1", "a", "bc"
StrOne == <<49>>
StrA == <<97>>
StrBC == <<98, 99>>

\* Element::a, Element::div and the last variant (xmp)
CodePool == {CodeOf("a"), CodeOf("div"), ElementCount - 1}

Attr(d) == [disc |-> d]
AttrPool == {Attr(0), Attr(7), Attr(254)}

IdPool == {None, Some(1), Some(258)}

KindPool ==
    {ElementKind(c) : c \in CodePool}
    \cup {InNamespaceKind(CodeOf("a"), SvgNs), InNamespaceKind(ElementCount - 1, StrA)}
    \cup {StrKind(CustomElement), StrKind(<<>>)}
    \cup {InNamespaceStrKind(StrA, StrBC), InNamespaceStrKind(SvgNs, StrA)}

SeqsUpTo(S, n) == UNION {[1..k -> S] : k \in 0..n}

AttrPairs == {<<Attr(7), StrOne>>, <<Attr(254), <<>>>>, <<Attr(0), StrBC>>}
AttrLists == SeqsUpTo(AttrPairs, MaxAttrs)

LeafPlain == Builder(None, ElementKind(CodeOf("a")), <<>>, <<>>)
LeafFull == Builder(Some(258), StrKind(CustomElement), <<<<Attr(7), StrOne>>>>, <<>>)
LeafNs == Builder(None, InNamespaceStrKind(StrA, StrBC), <<>>, <<>>)
ChildPool == {LeafPlain, LeafFull, LeafNs}

Leaves ==
    {Builder(i, k, <<>>, <<>>) : i \in IdPool, k \in KindPool}
    \cup {Builder(None, k, a, <<>>) : k \in {ElementKind(CodeOf("div")), StrKind(<<>>)}, a \in AttrLists}

Mids ==
    {Builder(None, k, a, cs) :
        k \in {ElementKind(CodeOf("div")), InNamespaceKind(CodeOf("a"), SvgNs)},
        a \in {<<>>, <<<<Attr(254), <<>>>>>>},
        cs \in SeqsUpTo(ChildPool, MaxChildren) \ {<<>>}}

Tops ==
    {Builder(Some(1), ElementKind(CodeOf("div")), <<>>, <<m, l>>) :
        m \in {Builder(None, ElementKind(CodeOf("div")), <<>>, <<c>>) : c \in ChildPool},
        l \in ChildPool}

\* the i-th child and the i-th attribute of a wide node, all distinct
WideChild(i) == Builder(Some(i), ElementKind(i % ElementCount), <<>>, <<>>)
WideAttr(i) == <<Attr(i % 256), IF i % 2 = 0 THEN <<>> ELSE StrOne>>

Wide ==
    {Builder(None, ElementKind(CodeOf("div")), <<>>, [i \in 1..n |-> WideChild(i)]) : n \in 255..MaxWide}
    \cup {Builder(None, ElementKind(CodeOf("div")), [i \in 1..n |-> WideAttr(i)], <<>>) : n \in 255..MaxWide}

\* a namespaced catalog element with one string-tag child carrying one attribute
Scenario(c, d) ==
    Builder(None, InNamespaceKind(c, SvgNs), <<>>,
            <<Builder(None, StrKind(CustomElement), <<<<Attr(d), StrOne>>>>, <<>>)>>)
Scenarios == {Scenario(c, a.disc) : c \in CodePool, a \in AttrPool}

Builders == Leaves \cup Mids \cup Tops \cup Wide \cup Scenarios

\* the builders of the batch cycles of the register protocol
ProtoBuilders == {LeafPlain, LeafFull, Scenario(CodeOf("a"), 7)}

\* ------------------------------------------------------------------- state

VARIABLES
    msg,              \* Batch::msg, the bytes of the batch under construction
    start,            \* Len(msg) before the last encode call
    last,             \* the last encode call and its argument
    result,           \* what the last encode call returned
    nops,             \* encode calls made on this batch
    bufPtr,           \* msg.as_ptr(): where the batch buffer lives
    pc,               \* the producer: "idle", "encoding", "published", "waiting"
    ipc,              \* the interpreter: "returned", "running", "consumed"
    MSG_PTR,          \* the buffer-address register
    MSG_POS_UPDATED,  \* the buffer-ready flag
    memBase,          \* the current base of the producer's memory
    pubBase,          \* memBase when MSG_PTR was last written
    interpMem,        \* the memory the interpreter holds (new / UpdateMemory)
    read,             \* what the interpreter's last dereference of MSG_PTR gave
    cycles            \* batch cycles completed

vars == <<msg, start, last, result, nops, bufPtr, pc, ipc, MSG_PTR, MSG_POS_UPDATED,
          memBase, pubBase, interpMem, read, cycles>>

encVars == <<msg, start, last, result, nops, bufPtr>>
regVars == <<MSG_PTR, MSG_POS_UPDATED, pubBase>>
memVars == <<memBase, interpMem>>

\* the two places a batch buffer is allocated at (never the null address)
BufAddrs == {8, 16}

Stale == <<"stale">>

Init ==
    /\ msg = <<>>
    /\ start = 0
    /\ last = [op |-> "none"]
    /\ result = "none"
    /\ nops = 0
    /\ bufPtr = 8
    /\ pc = "idle"
    /\ ipc = "returned"
    /\ MSG_PTR = 0
    /\ MSG_POS_UPDATED = MSG_POS_UPDATED_INIT
    /\ memBase = 0
    /\ pubBase = 0
    /\ interpMem = 0
    /\ read = <<>>
    /\ cycles = 0

\* ----------------------------------------------------------------- actions

\* the producer may append to the batch
CanEncode ==
    /\ pc \in {"idle", "encoding"}
    /\ nops < MaxOps
    /\ Len(msg) <= MaxPrefix

\* pushing to the Vec may reallocate it
Grown(ptr) == {ptr} \cup BufAddrs

\* ElementBuilder::encode(&self, v), called on the batch
EncodeBuilder(S) ==
    \E b \in S, p \in Grown(bufPtr) :
        /\ CanEncode
        /\ msg' = ElementBuilder_encode(b, msg)
        /\ start' = Len(msg)
        /\ last' = [op |-> "builder", arg |-> b]
        /\ result' = "ok"
        /\ nops' = nops + 1
        /\ bufPtr' = p
        /\ pc' = "encoding"
        /\ UNCHANGED <<ipc, regVars, memVars, read, cycles>>

\* AnyElement::encode(&self, v), called on the batch
EncodeKind(S) ==
    \E k \in S, p \in Grown(bufPtr) :
        /\ CanEncode
        /\ msg' = AnyElement_encode(k, msg)
        /\ start' = Len(msg)
        /\ last' = [op |-> "kind", arg |-> k]
        /\ result' = "ok"
        /\ nops' = nops + 1
        /\ bufPtr' = p
        /\ pc' = "encoding"
        /\ UNCHANGED <<ipc, regVars, memVars, read, cycles>>

\* the batch is discarded and a new one begun
NewBatch ==
    /\ pc = "encoding"
    /\ msg' = <<>>
    /\ start' = 0
    /\ last' = [op |-> "none"]
    /\ result' = "none"
    /\ nops' = 0
    /\ pc' = "idle"
    /\ UNCHANGED <<bufPtr, ipc, regVars, memVars, read, cycles>>

\* the host grows the producer's memory and moves it; this happens while the
\* producer runs, also between writing the registers and calling the interpreter
Relocate ==
    /\ pc \in {"idle", "encoding", "published"}
    /\ memBase < MaxReloc
    /\ memBase' = memBase + 1
    /\ UNCHANGED <<encVars, pc, ipc, regVars, interpMem, read, cycles>>

\* the producer writes the registers for the finished batch
Publish ==
    /\ pc = "encoding"
    /\ cycles < MaxCycles
    /\ MSG_PTR' = bufPtr
    /\ MSG_POS_UPDATED' = ReadySentinel
    /\ pubBase' = memBase
    /\ pc' = "published"
    /\ UNCHANGED <<encVars, ipc, memVars, read, cycles>>

\* last_needs_memory(): the interpreter's memory is not the current one
last_needs_memory == interpMem # memBase

\* if last_needs_memory() { update_last_memory(memory) }
UpdatedMemory_skipped == interpMem
UpdatedMemory == IF last_needs_memory THEN memBase ELSE interpMem

\* whether the producer goes on running once it has called the interpreter
AfterCall_resumes == "idle"
AfterCall == "waiting"

\* the producer hands control to the interpreter: work_last_created()
Invoke ==
    /\ pc = "published"
    /\ interpMem' = UpdatedMemory
    /\ pc' = AfterCall
    /\ ipc' = "running"
    /\ UNCHANGED <<encVars, regVars, memBase, read, cycles>>

\* what a dereference of MSG_PTR through the interpreter's memory gives
Deref == IF interpMem = memBase /\ MSG_PTR = bufPtr THEN msg ELSE Stale

\* the interpreter sees the flag raised and reads the batch
InterpWork ==
    /\ ipc = "running"
    /\ MSG_POS_UPDATED = ReadySentinel
    /\ read' = Deref
    /\ ipc' = "consumed"
    /\ UNCHANGED <<encVars, pc, regVars, memVars, cycles>>

\* the interpreter resets the flag and returns; the producer drops the batch
InterpReturn ==
    /\ ipc = "consumed"
    /\ MSG_POS_UPDATED' = 0
    /\ ipc' = "returned"
    /\ pc' = "idle"
    /\ msg' = <<>>
    /\ start' = 0
    /\ last' = [op |-> "none"]
    /\ result' = "none"
    /\ nops' = 0
    /\ cycles' = cycles + 1
    /\ UNCHANGED <<bufPtr, MSG_PTR, pubBase, memVars, read>>

\* the encoders, applied to batches
Next ==
    \/ EncodeBuilder(Builders)
    \/ EncodeKind(KindPool)
    \/ NewBatch

Spec == Init /\ [][Next]_vars

\* the batch cycles between the producer and the interpreter
ProtocolNext ==
    \/ EncodeBuilder(ProtoBuilders)
    \/ Relocate
    \/ Publish
    \/ Invoke
    \/ InterpWork
    \/ InterpReturn

ProtocolSpec == Init /\ [][ProtocolNext]_vars

\* ------------------------------------------------- reference layout, decoder

\* the bytes the last encode call appended
Appended == SubSeq(msg, start + 1, Len(msg))

LastBuilder == last.op = "builder"
LastKind == last.op = "kind"

\* the wire layout of the parts of a node, written out part by part
StrBytes(s) == LE(Len(s), StrLenWidth) \o s
IdBytes(id) == IF id.some THEN <<1>> \o LE(id.val, NodeIdWidth) ELSE <<0>>
TagBytes(k) ==
    CASE k.variant = "Element" -> <<k.code>>
      [] k.variant = "InNamespace" -> <<255, k.code>> \o StrBytes(k.ns)
      [] k.variant = "Str" -> <<254>> \o StrBytes(k.name)
      [] k.variant = "InNamespaceStr" -> <<253>> \o StrBytes(k.ns) \o StrBytes(k.name)
AttrBytes(pair) == <<pair[1].disc>> \o StrBytes(pair[2])

\* the concatenation of parts[lo], .., parts[hi]
RECURSIVE FlattenRange(_, _, _)
FlattenRange(parts, lo, hi) ==
    IF lo > hi THEN <<>>
    ELSE IF lo = hi THEN parts[lo]
    ELSE LET mid == (lo + hi) \div 2
         IN  FlattenRange(parts, lo, mid) \o FlattenRange(parts, mid + 1, hi)
Flatten(parts) == FlattenRange(parts, 1, Len(parts))

\* a node: id marker, tag, the two count bytes, the attributes, then each
\* child's whole subtree, one after the other
RECURSIVE Layout(_)
Layout(b) ==
    IdBytes(b.id) \o TagBytes(b.kind)
    \o <<Len(b.attrs) % 256, Len(b.children) % 256>>
    \o Flatten([i \in 1..Len(b.attrs) |-> AttrBytes(b.attrs[i])])
    \o Flatten([i \in 1..Len(b.children) |-> Layout(b.children[i])])

\* every node of the tree has at most 255 attributes and 255 children
RECURSIVE WithinLimits(_)
WithinLimits(b) ==
    /\ Len(b.attrs) <= 255
    /\ Len(b.children) <= 255
    /\ \A i \in 1..Len(b.children) : WithinLimits(b.children[i])

\* the tree has a grandchild
Depth2(b) == \E i \in 1..Len(b.children) : Len(b.children[i].children) > 0

\* The reference decoder: the inverse of the node layout and of the string
\* encoding.  A read past the end of the bytes gives 0.
Byte(m, p) == IF p \in 1..Len(m) THEN m[p] ELSE 0
Slice(m, p, n) == [i \in 1..n |-> Byte(m, p + i - 1)]
RECURSIVE FromLE(_, _, _)
FromLE(m, p, w) == IF w = 0 THEN 0 ELSE Byte(m, p) + 256 * FromLE(m, p + 1, w - 1)
Min(a, b) == IF a < b THEN a ELSE b

ReadStr(m, p) ==
    LET n == Min(FromLE(m, p, StrLenWidth), Len(m))
    IN  [val |-> Slice(m, p + StrLenWidth, n), next |-> p + StrLenWidth + n]

ReadId(m, p) ==
    IF Byte(m, p) = 0 THEN [val |-> None, next |-> p + 1]
    ELSE [val |-> Some(FromLE(m, p + 1, NodeIdWidth)), next |-> p + 1 + NodeIdWidth]

ReadTag(m, p) ==
    LET f == Byte(m, p)
    IN  CASE f = 255 ->
               LET n == ReadStr(m, p + 2)
               IN  [val |-> InNamespaceKind(Byte(m, p + 1), n.val), next |-> n.next]
          [] f = 254 ->
               LET t == ReadStr(m, p + 1)
               IN  [val |-> StrKind(t.val), next |-> t.next]
          [] f = 253 ->
               LET n == ReadStr(m, p + 1)
                   t == ReadStr(m, n.next)
               IN  [val |-> InNamespaceStrKind(n.val, t.val), next |-> t.next]
          [] OTHER -> [val |-> ElementKind(f), next |-> p + 1]

ReadAttr(m, p) ==
    LET s == ReadStr(m, p + 1)
    IN  [val |-> <<Attr(Byte(m, p)), s.val>>, next |-> s.next]

\* n attributes from position p on
RECURSIVE ReadAttrs(_, _, _)
ReadAttrs(m, p, n) ==
    IF n = 0 THEN [val |-> <<>>, next |-> p]
    ELSE IF n = 1 THEN LET a == ReadAttr(m, p) IN [val |-> <<a.val>>, next |-> a.next]
    ELSE LET l == ReadAttrs(m, p, n \div 2)
             r == ReadAttrs(m, l.next, n - n \div 2)
         IN  [val |-> l.val \o r.val, next |-> r.next]

RECURSIVE ReadNode(_, _)
RECURSIVE ReadNodes(_, _, _)

\* n subtrees from position p on
ReadNodes(m, p, n) ==
    IF n = 0 THEN [val |-> <<>>, next |-> p]
    ELSE IF n = 1 THEN LET c == ReadNode(m, p) IN [val |-> <<c.val>>, next |-> c.next]
    ELSE LET l == ReadNodes(m, p, n \div 2)
             r == ReadNodes(m, l.next, n - n \div 2)
         IN  [val |-> l.val \o r.val, next |-> r.next]

ReadNode(m, p) ==
    LET i == ReadId(m, p)
        t == ReadTag(m, i.next)
        na == Byte(m, t.next)
        nc == Byte(m, t.next + 1)
        a == ReadAttrs(m, t.next + 2, na)
        c == ReadNodes(m, a.next, nc)
    IN  [val |-> Builder(i.val, t.val, a.val, c.val), next |-> c.next]

\* ------------------------------------------------------------------ claims

\* C1: encoding a builder with more than 255 attributes or more than 255
\* children fails with LimitExceeded, naming which of the two overflowed, and
\* appends no bytes for that node.
C1_LimitExceeded ==
    LastBuilder /\ (Len(last.arg.attrs) > 255 \/ Len(last.arg.children) > 255) =>
        /\ result = IF Len(last.arg.attrs) > 255
                    THEN "LimitExceeded(attributes)" ELSE "LimitExceeded(children)"
        /\ Len(msg) = start

C3_OtherTags ==
    LastKind /\ last.arg.variant # "InNamespaceStr" =>
        /\ result = "ok"
        /\ last.arg.variant = "Element" => Appended = <<last.arg.code>>
        /\ last.arg.variant = "InNamespace" =>
              Appended = <<255, last.arg.code>> \o StrBytes(last.arg.ns)
        /\ last.arg.variant = "Str" => Appended = <<254>> \o StrBytes(last.arg.name)

C3_Witness ==
    /\ LastKind
    /\ last.arg = StrKind(CustomElement)
    /\ result = "ok"
    /\ start > 0
    /\ Appended = <<254, 14, 0>> \o CustomElement

C6_Discriminators ==
    /\ ElementCount < 253
    /\ LastKind =>
        LET f == Byte(msg, start + 1)
        IN  /\ (f = 253) = (last.arg.variant = "InNamespaceStr")
            /\ (f = 254) = (last.arg.variant = "Str")
            /\ (f = 255) = (last.arg.variant = "InNamespace")
            /\ (f \in 0..252) = (last.arg.variant = "Element")
            /\ last.arg.variant = "Element" => f = last.arg.code /\ f < ElementCount
            /\ ReadTag(msg, start + 1).val = last.arg

C6_Witness ==
    /\ LastKind
    /\ last.arg = ElementKind(ElementCount - 1)
    /\ Byte(msg, start + 1) = 133

\* the last call encoded a namespaced catalog element in the svg namespace
\* with the one "custom-element" child of the scenario
LastScenario ==
    /\ LastBuilder
    /\ \E c \in 0..(ElementCount - 1), a \in AttrPool : last.arg = Scenario(c, a.disc)

\* C9: svg is an element of the catalog, and the builder for svg in the
\* namespace "http://www.w3.org/2000/svg" with one child "custom-element"
\* carrying one attribute of value "1" encodes to: no-id, 255, the svg code,
\* the length-26 namespace, 0, 1, no-id, 254, the length-14 "custom-element",
\* 1, 0, the attribute discriminant, "1".
C9_SvgScenario ==
    LastScenario =>
        /\ HasElement("svg")
        /\ last.arg.kind.code = CodeOf("svg") =>
              Appended = <<0, 255, CodeOf("svg")>> \o LE(26, StrLenWidth) \o SvgNs \o <<0, 1>>
                         \o <<0, 254>> \o LE(14, StrLenWidth) \o CustomElement \o <<1, 0>>
                         \o <<last.arg.children[1].attrs[1][1].disc>>
                         \o LE(1, StrLenWidth) \o StrOne

\* the size in bytes of an encoded node, counted part by part
RECURSIVE SumRange(_, _, _)
SumRange(f, lo, hi) ==
    IF lo > hi THEN 0
    ELSE IF lo = hi THEN f[lo]
    ELSE LET mid == (lo + hi) \div 2 IN SumRange(f, lo, mid) + SumRange(f, mid + 1, hi)

StrSize(s) == StrLenWidth + Len(s)
HeadSize(b) ==
    (IF b.id.some THEN 1 + NodeIdWidth ELSE 1)
    + (CASE b.kind.variant = "Element" -> 1
         [] b.kind.variant = "InNamespace" -> 2 + StrSize(b.kind.ns)
         [] b.kind.variant = "Str" -> 1 + StrSize(b.kind.name)
         [] b.kind.variant = "InNamespaceStr" -> 1 + StrSize(b.kind.ns) + StrSize(b.kind.name))
AttrsSize(b) == SumRange([i \in 1..Len(b.attrs) |-> 1 + StrSize(b.attrs[i][2])], 1, Len(b.attrs))
RECURSIVE NodeSize(_)
NodeSize(b) ==
    HeadSize(b) + 2 + AttrsSize(b)
    + SumRange([i \in 1..Len(b.children) |-> NodeSize(b.children[i])], 1, Len(b.children))

\* C10: with at most 255 attributes and at most 255 children encode succeeds,
\* the first count byte is attrs.len() and the second children.len(), so that
\* the two read as one little-endian 16-bit value give
\* attrs.len() + 256 * children.len(), and exactly that many attribute pairs
\* and child subtrees follow.
C10_CountBytes ==
    LastBuilder /\ Len(last.arg.attrs) <= 255 /\ Len(last.arg.children) <= 255 =>
        LET b == last.arg
            p == start + HeadSize(b) + 1
        IN  /\ result = "ok"
            /\ Byte(msg, p) = Len(b.attrs)
            /\ Byte(msg, p + 1) = Len(b.children)
            /\ FromLE(msg, p, 2) = Len(b.attrs) + 256 * Len(b.children)
            /\ Len(msg) - start = NodeSize(b)
            /\ ReadAttrs(msg, p + 2, Byte(msg, p)).next = p + 2 + AttrsSize(b)

C10_Witness ==
    /\ LastBuilder
    /\ Len(last.arg.children) = 255
    /\ Len(last.arg.attrs) = 0
    /\ result = "ok"
    /\ FromLE(msg, start + HeadSize(last.arg) + 1, 2) = 65280
    /\ ReadNode(msg, start + 1).val = last.arg

\* the interpreter is reading, or has read, through MSG_PTR
InterpreterDereferences == ipc \in {"running", "consumed"}
\* the memory moved after MSG_PTR was written
RelocatedSincePublished == memBase # pubBase

\* C7: the interpreter never dereferences a published address when the memory
\* was relocated since the address was published and the interpreter has not
\* been given the new memory.
C7_NoStaleDereference ==
    InterpreterDereferences => ~(RelocatedSincePublished /\ interpMem # memBase)

C7_Witness ==
    /\ ipc = "consumed"
    /\ RelocatedSincePublished
    /\ interpMem = memBase
    /\ read = msg
    /\ read # <<>>

\* a step that raises the flag is the publishing of the encoded batch
C8_RaisedByPublish ==
    (MSG_POS_UPDATED # ReadySentinel /\ MSG_POS_UPDATED' = ReadySentinel)
        => (pc = "encoding" /\ pc' = "published" /\ MSG_PTR' = bufPtr' /\ msg' = msg)
\* from publishing until the interpreter returns the batch is left alone
C8_BatchKept ==
    (pc \in {"published", "waiting"} /\ pc' # "idle")
        => (msg' = msg /\ bufPtr' = bufPtr)
\* the interpreter's return leaves the flag reset and resumes the producer
C8_ResetOnReturn ==
    (ipc = "consumed" /\ ipc' = "returned")
        => (MSG_POS_UPDATED' # ReadySentinel /\ pc' = "idle")

====
